---- MODULE Spec2Model ----
(***************************************************************************)
(* A model of scalyr_agent/builtin_monitors/linux_process_metrics.py:      *)
(* the ProcessMonitor (configuration, process selection, per-process       *)
(* collection, metric history, running totals and emission).               *)
(***************************************************************************)
EXTENDS Integers, Sequences, FiniteSets, TLC

\* ------------------------------------------------------------------ bounds
\* Number of gather_sample calls explored.
MaxCycles == 3

\* Number of calls made on one reader.
MaxCalls == 3

\* ------------------------------------------------------------- environment
\* Text tokens.  A configuration value or a ps line is a sequence of tokens.
\* These are the decimal forms of the process ids that can exist.
PidTokens == <<"1", "2">>

Pids == 1..Len(PidTokens)

\* int(tok) succeeds.
IsNumeric(tok) == \E i \in 1..Len(PidTokens) : PidTokens[i] = tok

\* int(tok) for a numeric token.
ToInt(tok) == CHOOSE i \in 1..Len(PidTokens) : PidTokens[i] = tok

\* The pid of the agent itself, os.getpid().
SelfPid == ToInt("1")

\* str.lower() on the tokens that occur.
Lower(tok) == IF tok = "PID" THEN "pid" ELSE tok

\* The python value None.
None == "None"

\* The id option of the monitor configuration.
MonitorId == "tomcat"

\* --------------------------------------------------------------- metrics
CpuUser == <<"app.cpu", "user">>
Threads == <<"app.threads", None>>

\* The keys StatReader.gather_sample puts into the collector (the model
\* follows one cumulative and one absolute key of the five).
StatKeys == {CpuUser, Threads}

\* What a stat file can show: the user cpu time (already in 1/100 s) and the
\* number of threads.
StatFiles == {<<100, 1>>, <<150, 2>>, <<220, 1>>}

\* The empty dict.
EmptyDict == <<>>

\* What one StatReader.run_single_cycle call adds to the collector: nothing
\* (open or read failed, the error is logged) or all its keys at once.
StatResults ==
    {EmptyDict} \cup
    {[k \in StatKeys |-> IF k = CpuUser THEN f[1] ELSE f[2]] : f \in StatFiles}

\* ProcessTracker.collect: the merge of the readers' results into one dict.
\* The keys of the status, io and fd readers are not followed, so the merge
\* is what the stat reader added.
Collect(statResult) == statResult

\* Python truth of the two options.
MatcherSet(cfg) == cfg.commandline # None /\ cfg.commandline # ""
PidOptionSet(cfg) == cfg.pid # <<>>

\* ------------------------------------------------------ history and totals
\* values[:2], the oldest two.
FirstTwo(values) ==
    IF Len(values) <= 2 THEN values ELSE SubSeq(values, 1, 2)

\* values[-2:]
LastTwo(values) ==
    IF Len(values) <= 2 THEN values ELSE SubSeq(values, Len(values) - 1, Len(values))

\* ProcessMonitor._record_metrics(pid, metrics)
RecordMetrics(h, pid, metrics) ==
    IF DOMAIN metrics = {}
    THEN h
    ELSE LET old == IF pid \in DOMAIN h THEN h[pid] ELSE EmptyDict
             new == [k \in DOMAIN old \cup DOMAIN metrics |->
                       IF k \in DOMAIN metrics
                       THEN LastTwo(Append(IF k \in DOMAIN old THEN old[k] ELSE <<>>,
                                           metrics[k]))
                       ELSE old[k]]
         IN  [p \in DOMAIN h \cup {pid} |-> IF p = pid THEN new ELSE h[p]]

\* The loop of gather_sample over the trackers: collect and record each.
RECURSIVE RecordAll(_, _, _)
RecordAll(h, pids, smp) ==
    IF pids = {}
    THEN h
    ELSE LET p == CHOOSE q \in pids : TRUE
         IN  RecordAll(RecordMetrics(h, p, smp[p]), pids \ {p}, smp)

\* The keys of all the metrics a history holds.
HistoryKeys(h) == UNION {DOMAIN h[p] : p \in DOMAIN h}

\* The metric names _reset_absolute_metrics and _calculate_running_total
\* treat as cumulative.
CumulativeNames == {"app.cpu"}

\* _reset_absolute_metrics that zeroes nothing.
ResetNothing(rt, h) == rt

\* ProcessMonitor._reset_absolute_metrics
ResetAbsoluteMetrics(rt, h) ==
    LET zeroed == {k \in HistoryKeys(h) : k[1] \notin CumulativeNames}
    IN  [k \in DOMAIN rt \cup zeroed |-> IF k \in zeroed THEN 0 ELSE rt[k]]

\* NewTotal with the delta assigned instead of added.
NewTotalAssigned(total, key, values, isRunning) ==
    IF key[1] \in CumulativeNames
    THEN IF isRunning
         THEN IF Len(values) < 2
              THEN 0
              ELSE values[Len(values)] - values[Len(values) - 1]
         ELSE IF Len(values) >= 2
              THEN total - (values[Len(values)] - values[Len(values) - 1])
              ELSE total
    ELSE total + values[Len(values)]

\* NewTotal with the latest value of an absolute metric assigned instead of added.
NewTotalAbsoluteAssigned(total, key, values, isRunning) ==
    IF key[1] \in CumulativeNames
    THEN IF isRunning
         THEN IF Len(values) < 2
              THEN 0
              ELSE total + (values[Len(values)] - values[Len(values) - 1])
         ELSE IF Len(values) >= 2
              THEN total - (values[Len(values)] - values[Len(values) - 1])
              ELSE total
    ELSE values[Len(values)]

\* The body of the inner loop of _calculate_running_total for one key of one
\* pid: the new total from the current one (0 when the key is missing).
NewTotal(total, key, values, isRunning) ==
    IF key[1] \in CumulativeNames
    THEN IF isRunning
         THEN IF Len(values) < 2
              THEN 0
              ELSE total + (values[Len(values)] - values[Len(values) - 1])
         ELSE IF Len(values) >= 2
              THEN total - (values[Len(values)] - values[Len(values) - 1])
              ELSE total
    ELSE total + values[Len(values)]

\* One pass of the outer loop of _calculate_running_total: the metrics of one pid.
ApplyProcess(rt, metrics, isRunning) ==
    [k \in DOMAIN rt \cup DOMAIN metrics |->
        IF k \in DOMAIN metrics
        THEN NewTotal(IF k \in DOMAIN rt THEN rt[k] ELSE 0, k, metrics[k], isRunning)
        ELSE rt[k]]

\* The outer loop of _calculate_running_total, visiting the pids of the
\* history in the order the dict yields them.
RECURSIVE RecomputeTotals(_, _, _, _)
RecomputeTotals(rt, h, running, order) ==
    IF order = <<>>
    THEN rt
    ELSE RecomputeTotals(ApplyProcess(rt, h[Head(order)], Head(order) \in running),
                         h, running, Tail(order))

\* The end of _calculate_running_total: drop the pids that are not running.
PurgeDead(h, running) == [p \in DOMAIN h \cap running |-> h[p]]

\* The record kept beside the history: every value recorded for a pid and
\* key, none dropped, since the pid entered the history.
LogAll(lg, pids, smp) ==
    [p \in DOMAIN lg \cup {q \in pids : DOMAIN smp[q] # {}} |->
        LET old == IF p \in DOMAIN lg THEN lg[p] ELSE EmptyDict
            new == IF p \in pids THEN smp[p] ELSE EmptyDict
        IN  [k \in DOMAIN old \cup DOMAIN new |->
               (IF k \in DOMAIN old THEN old[k] ELSE <<>>) \o
               (IF k \in DOMAIN new THEN <<new[k]>> ELSE <<>>)]]

\* The orders in which a dict with the keys S can be iterated.
Orders(S) ==
    {o \in [1..Cardinality(S) -> S] : \A i, j \in 1..Cardinality(S) : o[i] = o[j] => i = j}

\* print_metrics emitting the name and the value only.
PrintMetricsNoExtra(rt) ==
    {[name |-> k[1], value |-> rt[k], extra |-> {}] : k \in DOMAIN rt}

\* ProcessMonitor.print_metrics: one emit_value call per key of the running total.
PrintMetrics(rt) ==
    {[name  |-> k[1],
      value |-> rt[k],
      extra |-> IF k[2] # None
                THEN {<<"app", MonitorId>>, <<"type", k[2]>>}
                ELSE {<<"app", MonitorId>>}] : k \in DOMAIN rt}

\* ---------------------------------------------------------- selection
\* The command lines a process can show in the ps listing.
Commands == {<<"java", "tomcat">>, <<"sh">>}

\* The listing 'ps ax -o pid,command' prints: the header line, then one line
\* per process, lowest pid first.  listed maps a pid to its command line, or
\* to <<>> when no such process exists.
RECURSIVE ProcessLines(_, _)
ProcessLines(listed, p) ==
    IF p > Len(PidTokens)
    THEN <<>>
    ELSE (IF listed[p] = <<>> THEN <<>> ELSE << <<PidTokens[p]>> \o listed[p] >>)
         \o ProcessLines(listed, p + 1)

\* What spawning ps gives: OSError when it cannot be invoked, else its lines.
PsOutcomes ==
    {[error |-> "OSError", lines |-> <<>>]} \cup
    {[error |-> "none", lines |-> << <<"PID", "COMMAND">> >> \o ProcessLines(listed, 1)] :
        listed \in [Pids -> Commands \cup {<<>>}]}

\* re.search(matcher, command) is not None
Matches(matcher, command) == \E i \in 1..Len(command) : command[i] = matcher

\* The loop of __select_processes over the lines of the listing.
RECURSIVE MatchingPids(_, _, _)
MatchingPids(lines, matcher, acc) ==
    IF lines = <<>>
    THEN [raised |-> "none", pids |-> acc]
    ELSE LET line == Head(lines)
         IN  IF Len(line) < 2 \/ Lower(line[1]) = "pid"
             THEN MatchingPids(Tail(lines), matcher, acc)
             ELSE IF ~IsNumeric(line[1])
             THEN [raised |-> "ValueError", pids |-> {}]
             ELSE MatchingPids(Tail(lines), matcher,
                               IF Matches(matcher, Tail(line))
                               THEN acc \cup {ToInt(line[1])}
                               ELSE acc)

\* self.__target_pids == '$$': a set never equals a str.
TargetIsSelfToken(tpids) == FALSE

\* ProcessMonitor.__select_processes
SelectProcesses(cfg, tpids, ps) ==
    IF MatcherSet(cfg)
    THEN IF ps.error # "none"
         THEN [raised |-> ps.error, pids |-> {}]
         ELSE MatchingPids(ps.lines, cfg.commandline, {})
    ELSE [raised |-> "none",
          pids   |-> IF TargetIsSelfToken(tpids) THEN {SelfPid} ELSE tpids]

\* ProcessTracker.__is_running, from the answer of os.kill(pid, 0): "ok", or
\* the errno of the OSError.
ProbeAnswers == {"ok", "ESRCH", "EPERM"}
IsRunning(answer) == IF answer = "ok" THEN TRUE ELSE answer # "ESRCH"

\* ----------------------------------------------------------------- readers
\* A reader holds its file object (None or an open file) and its _failed
\* flag.  BaseReader.__init__:
NewReader == [file |-> None, failed |-> FALSE]

\* How open(filename, "r") can end: it returns a file or raises an IOError
\* with one of these error codes.
OpenOutcomes == {"ok", "EACCES", "ENOENT", "EIO"}

\* e.errno of the IOError an open outcome stands for.
Errno(outcome) ==
    CASE outcome = "EACCES" -> 13
      [] outcome = "ENOENT" -> 2
      [] OTHER              -> 5

\* run_single_cycle reporting permission-denied only.
ReportedErrnosDeniedOnly == {13}

\* The error codes run_single_cycle reports and swallows.
ReportedErrnos == {13, 2}

\* How file.close() can end.
CloseOutcomes == {"ok", "IOError"}

\* How seek(0) followed by gather_sample(file, collector) can end: the keys
\* read are put into the collector, which is returned ("ok"); no line of the
\* file matches and nothing is returned ("none", StatusReader); an IOError;
\* or another exception, raised while the text is parsed ("ValueError").
ReadOutcomes(contents, failures) ==
    {[kind |-> "ok", sample |-> c] : c \in contents} \cup
    {[kind |-> k, sample |-> EmptyDict] : k \in failures}

\* dict.update
Update(d, e) ==
    [k \in DOMAIN d \cup DOMAIN e |-> IF k \in DOMAIN e THEN e[k] ELSE d[k]]

\* close() that keeps the file object.
CloseKeepsFile(r, closeOutcome) ==
    IF r.file # None /\ closeOutcome = "IOError"
    THEN [reader |-> [file |-> r.file, failed |-> TRUE], raised |-> "IOError"]
    ELSE [reader |-> [file |-> r.file, failed |-> FALSE], raised |-> "none"]

\* close() without its finally clause: the file object stays when
\* file.close() raises.
CloseWithoutFinally(r, closeOutcome) ==
    IF r.file # None /\ closeOutcome = "IOError"
    THEN [reader |-> [file |-> r.file, failed |-> TRUE], raised |-> "IOError"]
    ELSE [reader |-> [file |-> None, failed |-> FALSE], raised |-> "none"]

\* BaseReader.close(): the flag is set, the file closed, the flag cleared; the
\* file object is dropped whether or not file.close() raised.
Close(r, closeOutcome) ==
    IF r.file # None /\ closeOutcome = "IOError"
    THEN [reader |-> [file |-> None, failed |-> TRUE], raised |-> "IOError"]
    ELSE [reader |-> [file |-> None, failed |-> FALSE], raised |-> "none"]

\* run_single_cycle without the early exit.
NeverEarlyExit(r) == FALSE

\* The early exit of run_single_cycle.
EarlyExit(r) == r.failed

\* What a run_single_cycle call amounts to: the reader afterwards, what the
\* call returned ("dict" with its value, or "None"), the exception it raised,
\* the number of logger.error calls, and whether open and seek/gather_sample
\* were attempted.
Outcome(r, returns, value, exc, errors, opened, readf) ==
    [reader |-> r, returns |-> returns, value |-> value, raised |-> exc,
     errors |-> errors, opened |-> opened, readf |-> readf]

\* BaseReader.run_single_cycle(collector)
RunSingleCycle(r, collector, openOutcome, readOutcome, closeOutcome) ==
    IF EarlyExit(r)
    THEN Outcome(r, "None", EmptyDict, "none", 0, FALSE, FALSE)
    ELSE
      LET tryOpen  == r.file = None
          opened   == IF ~tryOpen THEN r
                      ELSE IF openOutcome = "ok"
                           THEN [r EXCEPT !.file = "open"]
                           ELSE [r EXCEPT !.failed = TRUE]
          openFail == tryOpen /\ openOutcome # "ok"
      IN  IF openFail /\ Errno(openOutcome) \notin ReportedErrnos
          THEN Outcome(opened, "None", EmptyDict, "IOError", 0, TRUE, FALSE)
          ELSE IF opened.file = None
          THEN Outcome(opened, "dict", collector, "none", 1, TRUE, FALSE)
          ELSE
            CASE readOutcome.kind = "ok" ->
                   Outcome(opened, "dict", Update(collector, readOutcome.sample),
                           "none", 0, tryOpen, TRUE)
              [] readOutcome.kind = "none" ->
                   Outcome(opened, "None", EmptyDict, "none", 0, tryOpen, TRUE)
              [] readOutcome.kind = "ValueError" ->
                   Outcome(opened, "None", EmptyDict, "ValueError", 0, tryOpen, TRUE)
              [] OTHER ->
                   LET closed == Close(opened, closeOutcome)
                   IN  IF closed.raised = "none"
                       THEN Outcome(closed.reader, "dict", collector, "none", 1,
                                    tryOpen, TRUE)
                       ELSE Outcome(closed.reader, "None", EmptyDict, closed.raised,
                                    1, tryOpen, TRUE)

\* ---------------------------------------------------------------- trackers
\* The readers ProcessTracker.set_gathers appends, in order (the io reader is
\* not followed).
GatherKinds == <<"stat", "status", "fd">>

\* The readers that derive from BaseReader.
BaseReaderKinds == {"stat", "status"}

Uptime == <<"app.uptime", None>>
MemVmsize == <<"app.mem.bytes", "vmsize">>
FdsOpen == <<"app.io.fds", "open">>

\* What the files of a tracked process can show: user cpu time, threads and
\* uptime in stat; the first numeric line of status, in kB; the entries of fd.
TrackedStatFiles == {<<100, 1, 5000>>, <<150, 2, 6000>>}
TrackedStatusFiles == {2}
TrackedFdDirs == {4}

\* The keys each reader puts into the collector for what its file shows.
Contents(kind) ==
    CASE kind = "stat" ->
           {[k \in StatKeys \cup {Uptime} |->
               IF k = CpuUser THEN f[1] ELSE IF k = Threads THEN f[2] ELSE f[3]]
            : f \in TrackedStatFiles}
      [] kind = "status" ->
           {[k \in {MemVmsize} |-> kb * 1024] : kb \in TrackedStatusFiles}
      [] OTHER ->
           {[k \in {FdsOpen} |-> n] : n \in TrackedFdDirs}

\* How the file operations of one reader can end in one cycle.  Only the
\* operations the reader gets to are given an outcome.
GatherEnvs(kind) ==
    IF kind \in BaseReaderKinds
    THEN {e \in [open  : IF kind = "stat" THEN OpenOutcomes ELSE {"ok", "ENOENT"},
                 read  : ReadOutcomes(Contents(kind),
                                      IF kind = "stat" THEN {"IOError", "ValueError"}
                                                       ELSE {"none", "IOError"}),
                 close : IF kind = "stat" THEN CloseOutcomes ELSE {"ok"}] :
            /\ e.open # "ok" => e.read.kind = "IOError"
            /\ (e.open # "ok" \/ e.read.kind # "IOError") => e.close = "ok"}
    ELSE [open : {"ok"}, read : ReadOutcomes(Contents(kind), {"OSError"}),
          close : {"ok"}]

\* FileDescriptorReader.run_single_cycle(collector)
RunFdCycle(collector, readOutcome) ==
    IF readOutcome.kind = "ok"
    THEN Outcome(NewReader, "dict", Update(collector, readOutcome.sample),
                 "none", 0, FALSE, TRUE)
    ELSE Outcome(NewReader, "None", EmptyDict, readOutcome.kind, 0, FALSE, TRUE)

\* gather.run_single_cycle(collector) for a reader of the kind
RunGather(kind, r, collector, env) ==
    IF kind \in BaseReaderKinds
    THEN RunSingleCycle(r, collector, env.open, env.read, env.close)
    ELSE RunFdCycle(collector, env.read)

\* The exceptions a reader, or the update of the collector, can raise.
Exceptions == {"IOError", "OSError", "ValueError", "TypeError"}

\* No except clause.
CaughtNothing(exc) == FALSE

\* An except clause that catches IOError only.
CaughtIOErrorOnly(exc) == exc = "IOError"

\* The except clause of collect: "except Exception".
Caught(exc) == exc \in Exceptions

\* The state of a collect call: the collector, the logger.exception calls
\* made, the run_single_cycle call made on each reader, and the exception
\* that ended the call.
CollectState(collector, logged, runs, exc) ==
    [collector |-> collector, logged |-> logged, runs |-> runs, raised |-> exc]

\* The body of the loop of collect for the i-th reader: the result of
\* run_single_cycle is merged into the collector; updating with None raises
\* a TypeError; a caught exception is logged with the pid and the type of the
\* reader.
CollectOne(pid, i, st, gathers, envs) ==
    LET kind == GatherKinds[i]
        res  == RunGather(kind, gathers[i], st.collector, envs[i])
        exc  == IF res.raised # "none" THEN res.raised
                ELSE IF res.returns = "None" THEN "TypeError" ELSE "none"
        runs == Append(st.runs, res)
    IN  IF exc = "none"
        THEN CollectState(Update(st.collector, res.value), st.logged, runs, "none")
        ELSE IF Caught(exc)
        THEN CollectState(st.collector,
                          st.logged \cup {[pid |-> pid, type |-> kind, ex |-> exc]},
                          runs, "none")
        ELSE CollectState(st.collector, st.logged, runs, exc)

RECURSIVE CollectFrom(_, _, _, _, _)
CollectFrom(pid, i, st, gathers, envs) ==
    IF i > Len(gathers) \/ st.raised # "none"
    THEN st
    ELSE CollectFrom(pid, i + 1, CollectOne(pid, i, st, gathers, envs), gathers, envs)

\* ProcessTracker.set_gathers on a new tracker: a new reader of each kind.
SetGathers == [i \in 1..Len(GatherKinds) |-> NewReader]

\* ProcessTracker.collect, with the readers of the tracker and what their
\* file operations amount to.
CollectGathers(pid, gathers, envs) ==
    CollectFrom(pid, 1, CollectState(EmptyDict, {}, <<>>, "none"), gathers, envs)

VARIABLES
    config,        \* the monitor configuration: commandline and pid options
    status,        \* "new", "ready", or the exception _initialize raised
    target_pids,   \* ProcessMonitor.__target_pids
    history,       \* ProcessMonitor.__metrics_history: pid -> key -> values
    running_total, \* ProcessMonitor.__running_total_metrics: key -> value
    emitted,       \* the emit_value calls of the last print_metrics
    cycle,         \* number of gather_sample calls made
    raised,        \* the exception the last gather_sample raised, or "none"
    trackers,      \* pids of the trackers of the last gather_sample
    samples,       \* pid -> the sample its tracker collected in the last gather_sample
    visit,         \* the order in which the last recompute pass visited the history
    probe,         \* pid -> what os.kill(pid, 0) answered at the last gather_sample
    log,           \* pid -> key -> every value recorded since the pid entered the history
    everTracked,   \* the pids that ever got a tracker
    purged,        \* the pids the last gather_sample removed from the history
    reader,        \* one reader object: its _file and _failed
    reader_calls,  \* number of calls made on the reader
    first_open,    \* how the first open attempt of the reader ended, "none" before it
    closed,        \* close() was called on the reader by its owner
    last_call,     \* the last call on the reader and what it amounted to
    runs,          \* pid -> the run_single_cycle calls of its tracker in the last gather_sample
    made,          \* pid -> number of trackers made for it over the cycles in a row that selected it
    exceptions,    \* the logger.exception calls of the collect calls of the last gather_sample
    parse_input,   \* the file a gather_sample method of a reader is given, and its collector
    parse_output   \* what the method returned

readerVars == <<reader, reader_calls, first_open, closed, last_call>>

trackerVars == <<runs, made, exceptions>>

parserVars == <<parse_input, parse_output>>

vars == <<config, status, target_pids, history, running_total, emitted, cycle,
          raised, trackers, samples, visit, probe, log, everTracked, purged,
          readerVars, trackerVars, parserVars>>

\* -------------------------------------------------------- configuration
\* The commandline option is a string or None.  The pid option is a comma
\* separated string, here the list of its comma separated tokens, the empty
\* list standing for an absent (None) or empty option.
Configs ==
    { [commandline |-> "java", pid |-> <<>>],
      [commandline |-> None,   pid |-> <<"2", "2">>],
      [commandline |-> None,   pid |-> <<"$$">>],
      [commandline |-> None,   pid |-> <<>>],
      [commandline |-> "",     pid |-> <<>>] }

\* _initialize without the test of the match criteria.
AlwaysConfigured(cfg, pids) == TRUE

\* The test of _initialize: a commandline matcher or a target pid is given.
HasMatchCriterion(cfg, pids) == MatcherSet(cfg) \/ pids # {}

\* No call has been made on the reader.
NoCall ==
    [method |-> "none", given |-> EmptyDict, returns |-> "None",
     value |-> EmptyDict, raised |-> "none", errors |-> 0,
     opened |-> FALSE, readf |-> FALSE, open |-> "-", read |-> "-",
     close |-> "-"]

\* No file has been given to a gather_sample method.
NothingParsed == [kind |-> "none"]

ProgramInit ==
    /\ config \in Configs
    /\ status = "new"
    /\ target_pids = {}
    /\ history = EmptyDict
    /\ running_total = EmptyDict
    /\ emitted = {}
    /\ cycle = 0
    /\ raised = "none"
    /\ trackers = {}
    /\ samples = EmptyDict
    /\ visit = <<>>
    /\ probe = [p \in Pids |-> "ok"]
    /\ log = EmptyDict
    /\ everTracked = {}
    /\ purged = {}
    /\ reader = NewReader
    /\ reader_calls = 0
    /\ first_open = "none"
    /\ closed = FALSE
    /\ last_call = NoCall
    /\ runs = EmptyDict
    /\ made = EmptyDict
    /\ exceptions = {}

Init ==
    /\ ProgramInit
    /\ parse_input = NothingParsed
    /\ parse_output = NothingParsed

\* ProcessMonitor._initialize
Initialize ==
    /\ status = "new"
    /\ LET toks == IF PidOptionSet(config) THEN config.pid ELSE <<>>
           bad  == \E i \in 1..Len(toks) : ~IsNumeric(toks[i])
           pids == {ToInt(toks[i]) : i \in {j \in 1..Len(toks) : IsNumeric(toks[j])}}
       IN  IF bad
           THEN /\ status' = "ValueError"
                /\ UNCHANGED target_pids
           ELSE /\ target_pids' = pids
                /\ status' = IF ~HasMatchCriterion(config, pids)
                             THEN "BadMonitorConfiguration"
                             ELSE "ready"
    /\ UNCHANGED <<config, history, running_total, emitted, cycle, raised,
                   trackers, samples, visit, probe, log, everTracked, purged>>
    /\ UNCHANGED <<readerVars, trackerVars, parserVars>>

\* What os.kill(pid, 0) can answer for each pid; the answers are followed for
\* the configured pids only.
ProbeSets ==
    {a \in [Pids -> ProbeAnswers] : \A p \in Pids \ target_pids : a[p] = "ok"}

\* What the trackers of the selected pids can collect: nothing when the
\* process does not exist.
SampleSets(pids, answers) ==
    {smp \in [pids -> {Collect(r) : r \in StatResults}] :
        \A p \in pids : answers[p] = "ESRCH" => smp[p] = EmptyDict}

\* gather_sample dropping the dead pids from the history before the totals
\* are reset and recomputed.
AggregatePurgeFirst(pids, smp) ==
    LET recorded == PurgeDead(RecordAll(history, pids, smp), pids)
        reset    == ResetAbsoluteMetrics(running_total, recorded)
    IN  \E order \in Orders(DOMAIN recorded) :
          /\ running_total' = RecomputeTotals(reset, recorded, pids, order)
          /\ history' = recorded
          /\ emitted' = PrintMetrics(running_total')
          /\ trackers' = pids
          /\ samples' = smp
          /\ visit' = order
          /\ log' = PurgeDead(LogAll(log, pids, smp), pids)
          /\ everTracked' = everTracked \cup pids
          /\ purged' = DOMAIN RecordAll(history, pids, smp) \ pids

\* The part of gather_sample that follows the collection: the samples of the
\* trackers are recorded, the absolute totals reset, the totals recomputed,
\* the dead pids dropped from the history and the totals emitted.
Aggregate(pids, smp) ==
    LET recorded == RecordAll(history, pids, smp)
        reset    == ResetAbsoluteMetrics(running_total, recorded)
    IN  \E order \in Orders(DOMAIN recorded) :
          /\ running_total' = RecomputeTotals(reset, recorded, pids, order)
          /\ history' = PurgeDead(recorded, pids)
          /\ emitted' = PrintMetrics(running_total')
          /\ trackers' = pids
          /\ samples' = smp
          /\ visit' = order
          /\ log' = PurgeDead(LogAll(log, pids, smp), pids)
          /\ everTracked' = everTracked \cup pids
          /\ purged' = DOMAIN recorded \ pids

\* ProcessMonitor.gather_sample, when process selection returns.
GatherSample ==
    /\ status = "ready"
    /\ cycle < MaxCycles
    /\ probe' \in ProbeSets
    /\ \E sel \in {SelectProcesses(config, target_pids, ps) : ps \in PsOutcomes} :
         /\ sel.raised = "none"
         /\ \E smp \in SampleSets(sel.pids, probe') : Aggregate(sel.pids, smp)
    /\ cycle' = cycle + 1
    /\ raised' = "none"
    /\ UNCHANGED <<config, status, target_pids>>
    /\ UNCHANGED <<readerVars, trackerVars, parserVars>>

\* ProcessMonitor.gather_sample, when process selection raises: nothing is
\* collected, recorded or emitted.
GatherSampleRaises ==
    /\ status = "ready"
    /\ cycle < MaxCycles
    /\ \E sel \in {SelectProcesses(config, target_pids, ps) : ps \in PsOutcomes} :
         /\ sel.raised # "none"
         /\ raised' = sel.raised
    /\ cycle' = cycle + 1
    /\ UNCHANGED <<config, status, target_pids, history, running_total, emitted,
                   trackers, samples, visit, probe, log, everTracked, purged>>
    /\ UNCHANGED <<readerVars, trackerVars, parserVars>>

Next ==
    \/ Initialize
    \/ GatherSample
    \/ GatherSampleRaises

Spec == Init /\ [][Next]_vars

\* ------------------------------------------------------- one reader, alone
\* A reader taken by itself, under any sequence of the calls its owner can
\* make on it, with any outcome of the file operations.
monitorVars == <<config, status, target_pids, history, running_total, emitted,
                 cycle, raised, trackers, samples, visit, probe, log,
                 everTracked, purged>>

\* The collectors a caller passes: an empty dict, or one holding the key of
\* another reader.
Collectors == {EmptyDict, [k \in {FdsOpen} |-> 4]}

\* What the file of the reader can show.
ReaderContents == StatResults \ {EmptyDict}

ReaderInit ==
    /\ Init
    /\ config = [commandline |-> "java", pid |-> <<>>]

\* A call of reader.run_single_cycle(collector=c)
RunSingleCycleCall ==
    /\ reader_calls < MaxCalls
    /\ \E c \in Collectors, o \in OpenOutcomes, cl \in CloseOutcomes,
          rd \in ReadOutcomes(ReaderContents, {"none", "IOError", "ValueError"}) :
         LET res == RunSingleCycle(reader, c, o, rd, cl)
         IN  /\ reader' = res.reader
             /\ first_open' = IF first_open = "none" /\ res.opened
                               THEN o ELSE first_open
             /\ last_call' = [method |-> "run_single_cycle", given |-> c,
                               returns |-> res.returns, value |-> res.value,
                               raised |-> res.raised, errors |-> res.errors,
                               opened |-> res.opened, readf |-> res.readf,
                               open  |-> IF res.opened THEN o ELSE "-",
                               read  |-> IF res.readf THEN rd.kind ELSE "-",
                               close |-> IF res.readf /\ rd.kind = "IOError"
                                         THEN cl ELSE "-"]
    /\ reader_calls' = reader_calls + 1
    /\ UNCHANGED closed
    /\ UNCHANGED <<monitorVars, trackerVars, parserVars>>

\* A call of reader.close()
CloseCall ==
    /\ reader_calls < MaxCalls
    /\ \E cl \in CloseOutcomes :
         LET res == Close(reader, cl)
         IN  /\ reader' = res.reader
             /\ last_call' = [NoCall EXCEPT !.method = "close",
                                            !.raised = res.raised,
                                            !.close = IF reader.file # None
                                                      THEN cl ELSE "-"]
    /\ reader_calls' = reader_calls + 1
    /\ closed' = TRUE
    /\ UNCHANGED first_open
    /\ UNCHANGED <<monitorVars, trackerVars, parserVars>>

ReaderNext ==
    \/ RunSingleCycleCall
    \/ CloseCall

ReaderSpec == ReaderInit /\ [][ReaderNext]_vars

\* ------------------------------------------------ the readers of the trackers
\* The cycles of the monitor, following the readers of each tracker.
MaxTrackedCycles == 2

TrackerInit ==
    /\ Init
    /\ config = [commandline |-> None, pid |-> <<"2", "2">>]

\* The outcomes of the file operations of the readers of one tracker.
TrackerEnvs ==
    {<<e1, e2, e3>> : e1 \in GatherEnvs(GatherKinds[1]),
                      e2 \in GatherEnvs(GatherKinds[2]),
                      e3 \in GatherEnvs(GatherKinds[3])}

\* ProcessMonitor.gather_sample, with the trackers it makes and their readers:
\* for every selected pid a new tracker, set_gathers() and collect().
TrackedCycle ==
    /\ status = "ready"
    /\ cycle < MaxTrackedCycles
    /\ \E sel \in {SelectProcesses(config, target_pids, ps) : ps \in PsOutcomes} :
         /\ sel.raised = "none"
         /\ \E envs \in [sel.pids -> TrackerEnvs] :
              LET done == [p \in sel.pids |-> CollectGathers(p, SetGathers, envs[p])]
              IN  /\ IF \E p \in sel.pids : done[p].raised # "none"
                     THEN /\ raised' = (CHOOSE x \in {done[p].raised : p \in sel.pids} :
                                           x # "none")
                          /\ UNCHANGED <<history, running_total, emitted, trackers,
                                         samples, visit, log, everTracked, purged>>
                     ELSE /\ raised' = "none"
                          /\ Aggregate(sel.pids,
                                       [p \in sel.pids |-> done[p].collector])
                  /\ runs' = [p \in sel.pids |-> done[p].runs]
                  /\ made' = [p \in sel.pids |->
                                IF p \in DOMAIN made THEN made[p] + 1 ELSE 1]
                  /\ exceptions' = UNION {done[p].logged : p \in sel.pids}
    /\ cycle' = cycle + 1
    /\ UNCHANGED <<config, status, target_pids, probe>>
    /\ UNCHANGED <<readerVars, parserVars>>

TrackerNext ==
    \/ Initialize
    \/ TrackedCycle

TrackerSpec == TrackerInit /\ [][TrackerNext]_vars

\* -------------------------------------------------- the parsers of the readers
\* The gather_sample methods of the readers, taken as functions of the text
\* of the file.  A line is the sequence of its characters.
Digits == <<"0", "1", "2", "3", "4", "5", "6", "7", "8", "9">>

\* \d
DigitChars == {Digits[i] : i \in 1..Len(Digits)}

\* int(c) for a digit.
DigitValue(c) == (CHOOSE i \in 1..Len(Digits) : Digits[i] = c) - 1

\* \w: letters, digits and the underscore.
WordChars == DigitChars \cup {"N", "V", "m", "R", "k", "B", "j", "_"}

\* \s
SpaceChars == {" ", "\t"}

\* The length of the longest run of characters of a class that starts at
\* position i of the line.
RECURSIVE RunLength(_, _, _)
RunLength(line, i, class) ==
    IF i > Len(line) \/ line[i] \notin class
    THEN 0
    ELSE 1 + RunLength(line, i + 1, class)

\* int(text) for a run of digits.
RECURSIVE Decimal(_)
Decimal(text) ==
    IF text = <<>>
    THEN 0
    ELSE 10 * Decimal(SubSeq(text, 1, Len(text) - 1)) + DigitValue(text[Len(text)])

\* re.search('^(\w+):\s*(\d+)', line): the match, with the number of group 2.
\* Each of the three runs is followed by a character outside its class, so
\* the greedy match takes the longest run.
StatusMatch(line) ==
    LET w   == RunLength(line, 1, WordChars)
        sp  == RunLength(line, w + 2, SpaceChars)
        d   == RunLength(line, w + sp + 2, DigitChars)
        hit == /\ w >= 1
               /\ w + 1 <= Len(line)
               /\ line[w + 1] = ":"
               /\ d >= 1
    IN  [matched |-> hit,
         value   |-> IF hit THEN Decimal(SubSeq(line, w + sp + 2, w + sp + d + 1))
                     ELSE 0]

\* The keys StatusReader.gather_sample sets.
MemKeys == {<<"app.mem.bytes", sub>> :
               sub \in {"vmsize", "peak_vmsize", "resident", "peak_resident"}}

\* The loop of gather_sample taking the value of the last line that matches.
RECURSIVE StatusGatherLast(_, _)
StatusGatherLast(lines, collector) ==
    IF lines = <<>>
    THEN [returns |-> "None", value |-> EmptyDict]
    ELSE LET m == StatusMatch(lines[Len(lines)])
         IN  IF m.matched
             THEN [returns |-> "dict",
                   value |-> Update(collector, [k \in MemKeys |-> m.value * 1024])]
             ELSE StatusGatherLast(SubSeq(lines, 1, Len(lines) - 1), collector)

\* StatusReader.gather_sample(stat_file, collector): the first line that
\* matches sets the four keys and ends the call; when no line matches the
\* loop ends and the method returns nothing.
RECURSIVE StatusGather(_, _)
StatusGather(lines, collector) ==
    IF lines = <<>>
    THEN [returns |-> "None", value |-> EmptyDict]
    ELSE LET m == StatusMatch(Head(lines))
         IN  IF m.matched
             THEN [returns |-> "dict",
                   value |-> Update(collector, [k \in MemKeys |-> m.value * 1024])]
             ELSE StatusGather(Tail(lines), collector)

\* The other keys StatReader.gather_sample sets.
CpuSystem == <<"app.cpu", "system">>
Nice == <<"app.nice", None>>

StatSampleKeys == {CpuUser, CpuSystem, Uptime, Nice, Threads}

\* What str.split() takes as white space.
Whitespace == SpaceChars \cup {"\n"}

\* line.find(") "): the python index of the first ")" that a blank follows,
\* -1 when there is none.
Find(line) ==
    LET hits == {i \in 1..(Len(line) - 1) : line[i] = ")" /\ line[i + 1] = " "}
    IN  IF hits = {}
        THEN -1
        ELSE (CHOOSE i \in hits : \A j \in hits : i <= j) - 1

\* line[k:] for a python index k >= 0.
SliceFrom(line, k) == SubSeq(line, k + 1, Len(line))

\* The length of the token a text starts with.
RECURSIVE TokenLength(_)
TokenLength(text) ==
    IF text = <<>> \/ Head(text) \in Whitespace
    THEN 0
    ELSE 1 + TokenLength(Tail(text))

\* line.split(): the runs of characters between the runs of white space.
RECURSIVE Split(_)
Split(text) ==
    IF text = <<>>
    THEN <<>>
    ELSE IF Head(text) \in Whitespace
         THEN Split(Tail(text))
         ELSE LET n == TokenLength(text)
              IN  <<SubSeq(text, 1, n)>> \o Split(SubSeq(text, n + 1, Len(text)))

\* int(text) and float(text) for a decimal numeral with or without a sign; the
\* float of a numeral without fraction has the value of the integer.
ParseInt(text) ==
    IF Head(text) = "-" THEN 0 - Decimal(Tail(text)) ELSE Decimal(text)

\* The centiseconds of a number of jiffies, rounded up.
CalculateTimeCsRoundedUp(jiffies, jiffies_per_sec) ==
    ((jiffies * 100) + jiffies_per_sec - 1) \div jiffies_per_sec

\* StatReader.__calculate_time_cs: int((jiffies * 100.0) / jiffies_per_sec).
\* The product is exact in a double below 2^53 and the quotient is rounded to
\* the nearest double, which for these sizes is never the next integer, so
\* int() of it is the integer quotient; jiffies are not negative, so the
\* truncation of int() is the floor.
CalculateTimeCs(jiffies, jiffies_per_sec) ==
    (jiffies * 100) \div jiffies_per_sec

\* StatReader.calculate_time_ms: int((jiffies * 1000.0) / jiffies_per_sec).
CalculateTimeMs(jiffies, jiffies_per_sec) ==
    (jiffies * 1000) \div jiffies_per_sec

\* StatReader.__get_uptime_ms: the boot time is computed at the first call
\* from the first number of /proc/uptime, taken here in milliseconds, and kept;
\* the result is the time now, in whole seconds, minus the boot time.  The
\* field _boot_time_ms is a sequence here, empty while it is None.
GetUptimeMs(now, boot_time_ms, proc_uptime_ms) ==
    LET boot == IF boot_time_ms = <<>>
                THEN now * 1000 - proc_uptime_ms
                ELSE boot_time_ms[1]
    IN  now * 1000 - boot

\* StatReader.gather_sample(stat_file, collector) on the first line of the
\* file.
StatGather(line, collector, jiffies_per_sec, uptime_ms) ==
    LET fields == Split(SliceFrom(line, Find(line) + 2))
        process_uptime ==
            uptime_ms - CalculateTimeMs(ParseInt(fields[20]), jiffies_per_sec)
        sample ==
            [k \in StatSampleKeys |->
                CASE k = CpuUser   -> CalculateTimeCs(ParseInt(fields[12]), jiffies_per_sec)
                  [] k = CpuSystem -> CalculateTimeCs(ParseInt(fields[13]), jiffies_per_sec)
                  [] k = Uptime    -> process_uptime
                  [] k = Nice      -> ParseInt(fields[17])
                  [] k = Threads   -> ParseInt(fields[18])]
    IN  Update(collector, sample)

\* str(n)
RECURSIVE Numeral(_)
Numeral(n) ==
    IF n < 0 THEN <<"-">> \o Numeral(0 - n)
    ELSE IF n < 10 THEN <<Digits[n + 1]>>
    ELSE Numeral(n \div 10) \o <<Digits[(n % 10) + 1]>>

\* Number of fields of a stat line after the name of the executable.
MaxStatFields == 22

\* The numbers a stat line shows after the name of the executable, by
\* offset + 1: user and system time, nice value, threads and start time at
\* offsets 11, 12, 16, 17 and 19, and a number of its own at every other
\* offset (the state letter at offset 0 is written as "S" in the line).
StatNumbers ==
    {[i \in 1..MaxStatFields |->
         CASE i = 12 -> u
           [] i = 13 -> sy
           [] i = 17 -> ni
           [] i = 18 -> th
           [] i = 20 -> st
           [] OTHER  -> 900 + i] :
        u \in {0, 7, 150}, sy \in {3, 42}, ni \in {-5, 0, 19},
        th \in {1, 12}, st \in {0, 333, 12345}}

\* The name of the executable as the line shows it, and the number of tokens
\* of it that follow its first ") ".
StatComms ==
    { [text |-> <<"(", "j", ")">>, shift |-> 0],
      [text |-> <<"(", "m", " ", "p", ")">>, shift |-> 0],
      [text |-> <<"(", "a", ")", " ", "b", ")">>, shift |-> 1] }

\* The blanks between two fields.
StatSeparators == {<<" ">>, <<" ", " ">>}

RECURSIVE Join(_, _)
Join(tokens, sep) ==
    IF tokens = <<>> THEN <<>>
    ELSE IF Len(tokens) = 1 THEN tokens[1]
    ELSE tokens[1] \o sep \o Join(Tail(tokens), sep)

\* The line of /proc/<pid>/stat: pid, name, state letter and the numbers.
StatLine(comm, numbers, sep) ==
    Join(<<Numeral(2), comm.text, <<"S">>>>
         \o [i \in 1..(Len(numbers) - 1) |-> Numeral(numbers[i + 1])], sep)
    \o <<"\n">>

\* The clock ticks per second of the machine.
JiffiesPerSec == {100, 250, 1024}

\* The stat files and what StatReader holds when it reads them.
StatInputs ==
    {[kind            |-> "stat",
      line            |-> StatLine(comm, numbers, sep),
      collector       |-> collector,
      jiffies_per_sec |-> tps,
      now             |-> 5000,
      boot_time_ms    |-> boot,
      proc_uptime_ms  |-> 3999750,
      numbers         |-> numbers,
      shift           |-> comm.shift] :
        comm \in StatComms, numbers \in StatNumbers, sep \in StatSeparators,
        collector \in Collectors, tps \in JiffiesPerSec,
        boot \in {<<>>, <<4870000>>}}

\* Number of lines of a status file.
MaxStatusLines == 3

\* The lines a status file is made of.
StatusLines ==
    { <<"N", ":", "\t", "j">>,
      <<"V", "m", ":", "\t", " ", "2", "0", " ", "k", "B">>,
      <<"R", ":", "7">>,
      <<" ", "V", ":", "3">>,
      <<"V", " ", ":", "5">>,
      <<"4", "_", ":", " ", "1", "6">>,
      <<>> }

StatusFiles ==
    UNION {[1..n -> StatusLines] : n \in 0..MaxStatusLines}

ParserInit ==
    /\ ProgramInit
    /\ config = [commandline |-> "java", pid |-> <<>>]
    /\ parse_input \in
          [kind : {"status"}, file : StatusFiles, collector : Collectors]
          \cup StatInputs
    /\ parse_output = NothingParsed

\* StatusReader.gather_sample on the file given.
GatherStatus ==
    /\ parse_input.kind = "status"
    /\ parse_output = NothingParsed
    /\ LET res == StatusGather(parse_input.file, parse_input.collector)
       IN  parse_output' = [kind |-> "status", returns |-> res.returns,
                            value |-> res.value]
    /\ UNCHANGED <<monitorVars, readerVars, trackerVars, parse_input>>

\* StatReader.gather_sample on the file given.
GatherStat ==
    /\ parse_input.kind = "stat"
    /\ parse_output = NothingParsed
    /\ LET uptime_ms == GetUptimeMs(parse_input.now, parse_input.boot_time_ms,
                                    parse_input.proc_uptime_ms)
       IN  parse_output' =
              [kind |-> "stat", returns |-> "dict", uptime_ms |-> uptime_ms,
               value |-> StatGather(parse_input.line, parse_input.collector,
                                    parse_input.jiffies_per_sec, uptime_ms)]
    /\ UNCHANGED <<monitorVars, readerVars, trackerVars, parse_input>>

ParserNext ==
    \/ GatherStatus
    \/ GatherStat

ParserSpec == ParserInit /\ [][ParserNext]_vars

\* ------------------------------------------------------------------ claims
\* A gather_sample call has just completed (a step of GatherSample).
CycleCompletes == cycle' = cycle + 1 /\ raised' = "none"

\* The history as the reset and recompute passes of the cycle just completed
\* saw it: after the trackers recorded, before the dead pids were dropped.
Recorded == RecordAll(history, trackers', samples')

\* The running total of a key, 0 when it has none.
TotalOf(rt, key) == IF key \in DOMAIN rt THEN rt[key] ELSE 0

\* pid p alone was selected in every cycle so far, and app.cpu was observed in
\* each of them.
AloneEveryCycle(p) ==
    /\ everTracked = {p}
    /\ p \in DOMAIN log
    /\ CpuUser \in DOMAIN log[p]
    /\ Len(log[p][CpuUser]) = cycle

\* C1 as stated: for a single pid selected in every cycle whose app.cpu is
\* observed in every cycle, the running total after cycle k >= 2 is the last
\* delta v_k - v_(k-1).
C1_LastDeltaOnly ==
    \A p \in Pids :
        AloneEveryCycle(p) /\ cycle >= 2 =>
            running_total[CpuUser] = log[p][CpuUser][cycle] - log[p][CpuUser][cycle - 1]

\* C1 as amended: for a single pid that alone is selected in every cycle and
\* whose app.cpu is observed in every cycle, the running total after cycle
\* k >= 2 is the sum of the deltas, v_k - v_1; for 100, 150, 220 it is 120.
C1_SumOfDeltas ==
    \A p \in Pids :
        AloneEveryCycle(p) /\ cycle >= 2 =>
            /\ running_total[CpuUser] = log[p][CpuUser][cycle] - log[p][CpuUser][1]
            /\ log[p][CpuUser] = <<100, 150, 220>> => running_total[CpuUser] = 120

C1_Witness ==
    \E p \in Pids :
        /\ AloneEveryCycle(p)
        /\ log[p][CpuUser] = <<100, 150, 220>>
        /\ running_total[CpuUser] = 120

\* A sequence without the element q.
Without(seq, q) == SelectSeq(seq, LAMBDA x : x # q)

\* A dict without the key q.
Dropped(h, q) == [p \in DOMAIN h \ {q} |-> h[p]]

\* C2: when a pid whose app.cpu history holds two values with delta d is not
\* selected in a cycle, the recompute pass of that cycle leaves the running
\* total of the key smaller by exactly d than it would leave it without that
\* pid's history entry, whatever other pids the history holds.
C2_BackOut ==
    [][CycleCompletes =>
        \A q \in DOMAIN Recorded \ trackers' :
            (CpuUser \in DOMAIN Recorded[q] /\ Len(Recorded[q][CpuUser]) = 2) =>
                LET d    == Recorded[q][CpuUser][2] - Recorded[q][CpuUser][1]
                    rt0  == ResetAbsoluteMetrics(running_total, Recorded)
                    else == RecomputeTotals(rt0, Dropped(Recorded, q), trackers',
                                            Without(visit', q))
                IN  running_total'[CpuUser] = TotalOf(else, CpuUser) - d]_vars

\* The sum of the latest values of key k over the pids of h that hold it.
RECURSIVE SumLatest(_, _, _)
SumLatest(h, pids, k) ==
    IF pids = {}
    THEN 0
    ELSE LET p == CHOOSE q \in pids : TRUE
         IN  (IF k \in DOMAIN h[p] THEN h[p][k][Len(h[p][k])] ELSE 0)
             + SumLatest(h, pids \ {p}, k)

\* C3: the last value a pid recorded for an absolute metric is part of the
\* running total in the first cycle in which the pid is no longer selected and
\* in no later one: after every cycle the running total of an absolute key is
\* the sum of the latest values of the pids selected in that cycle and of the
\* pids that left the selection in that very cycle, also when no pid is left.
C3_OneMoreCycle ==
    [][CycleCompletes =>
        \A k \in DOMAIN running_total' :
            k[1] \notin CumulativeNames =>
                running_total'[k] = SumLatest(Recorded, DOMAIN Recorded, k)]_vars
\* C4: every (pid, key) entry of the history holds at most 2 values, and they
\* are the values most recently recorded for that pair, oldest first.
C4_LastTwoValues ==
    /\ DOMAIN history = DOMAIN log
    /\ \A p \in DOMAIN history :
        /\ DOMAIN history[p] = DOMAIN log[p]
        /\ \A k \in DOMAIN history[p] :
            LET kept == history[p][k]
                all  == log[p][k]
            IN  /\ Len(kept) <= 2
                /\ Len(kept) = IF Len(all) < 2 THEN Len(all) ELSE 2
                /\ \A i \in 1..Len(kept) : kept[i] = all[Len(all) - Len(kept) + i]

\* A pair recorded three times holds the second and the third value.
C4_Witness ==
    \E p \in DOMAIN history :
        /\ Len(log[p][CpuUser]) = 3
        /\ log[p][CpuUser][1] # log[p][CpuUser][3]
        /\ history[p][CpuUser] = <<log[p][CpuUser][2], log[p][CpuUser][3]>>

\* C5: in a cycle in which two selected pids have the latest values v1 and v2
\* for the same absolute key and no other pid has a history entry for that
\* key, the running total of the key after the cycle is v1 + v2, whatever it
\* was before.
C5_SumOfTwo ==
    [][CycleCompletes =>
        \A p1, p2 \in trackers' : \A k \in HistoryKeys(Recorded) :
            ( /\ p1 # p2
              /\ k[1] \notin CumulativeNames
              /\ {p \in DOMAIN Recorded : k \in DOMAIN Recorded[p]} = {p1, p2} ) =>
                running_total'[k] =
                    Recorded[p1][k][Len(Recorded[p1][k])]
                    + Recorded[p2][k][Len(Recorded[p2][k])]]_vars

\* Two pids are selected with the latest values 1 and 2 and the total is 3;
\* their values before were 1 and 1, the total of the cycle before 2.
C5_Witness ==
    /\ trackers = {1, 2}
    /\ purged = {}
    /\ DOMAIN history = {1, 2}
    /\ Threads \in DOMAIN samples[1] /\ Threads \in DOMAIN samples[2]
    /\ history[1][Threads] = <<1, 1>>
    /\ history[2][Threads] = <<1, 2>>
    /\ running_total[Threads] = 3

\* Two consecutive completed cycles had the same selected pids and samples.
SameAsPreviousCycle ==
    /\ CycleCompletes
    /\ cycle >= 1
    /\ raised = "none"
    /\ trackers' = trackers
    /\ samples' = samples

C7_SelectionNeverFails == raised = "none"

\* C8: with a pid list configured, the pids with a tracker are configured pids
\* that the liveness probe reports as running.
C8_OnlyLivePids ==
    (status = "ready" /\ ~MatcherSet(config) /\ cycle >= 1) =>
        trackers \subseteq {p \in target_pids : IsRunning(probe[p])}

\* C9: with pid configured as '$$' the monitor is constructed and every cycle
\* selects exactly the agent's own pid.
C9_SelfToken ==
    (~MatcherSet(config) /\ config.pid = <<"$$">>) =>
        /\ status \in {"new", "ready"}
        /\ cycle >= 1 => trackers = {SelfPid}

\* C10: when several processes match the commandline pattern, at most one pid
\* gets a tracker and a history entry.
C10_OneProcessMonitored ==
    MatcherSet(config) =>
        /\ Cardinality(trackers) <= 1
        /\ Cardinality(DOMAIN history) <= 1

\* The pid option, when given, is a list of integers.
PidListOfIntegers(cfg) == \A i \in 1..Len(cfg.pid) : IsNumeric(cfg.pid[i])

\* C11: constructing the monitor with neither a commandline pattern nor a pid
\* list raises BadMonitorConfiguration and no cycle ever runs; with a
\* commandline pattern or a list of pids it succeeds, and the history and the
\* running totals are empty until the first cycle.
C11_MatchCriterionRequired ==
    (status # "new" /\ PidListOfIntegers(config)) =>
        /\ (~MatcherSet(config) /\ ~PidOptionSet(config)) =>
              /\ status = "BadMonitorConfiguration"
              /\ cycle = 0 /\ history = EmptyDict /\ running_total = EmptyDict
        /\ (MatcherSet(config) \/ PidOptionSet(config)) =>
              /\ status = "ready"
              /\ cycle = 0 => (history = EmptyDict /\ running_total = EmptyDict)

\* Construction has failed for a configuration without match criteria.
C11_Witness ==
    /\ status = "BadMonitorConfiguration"
    /\ ~MatcherSet(config) /\ ~PidOptionSet(config)

\* C12: once the first open attempt of a reader has failed with
\* permission-denied, no later run_single_cycle call on that reader attempts
\* to open the file (the reader being driven by run_single_cycle calls only).
C12_NoReopenAfterDenied ==
    [][(/\ first_open = "EACCES"
        /\ ~closed'
        /\ last_call'.method = "run_single_cycle"
        /\ reader_calls' = reader_calls + 1)
       => (~last_call'.opened /\ ~last_call'.readf)]_vars

\* A run_single_cycle call has been made on a reader after its first open
\* attempt had failed with permission-denied.
C12_Witness ==
    /\ first_open = "EACCES"
    /\ ~closed
    /\ reader_calls >= 2
    /\ last_call.method = "run_single_cycle"
    /\ ~last_call.opened

\* The readers of pid p that failed for good in the cycle before the one just
\* completed, and reported it: the flag is set and an error was logged.
FailedAndReported(p) ==
    {i \in 1..Len(GatherKinds) :
        /\ p \in DOMAIN runs
        /\ runs[p][i].reader.failed
        /\ runs[p][i].errors > 0}

\* C13: a permanent failure of the reader of a (pid, file kind) is reported
\* once: in the later cycles in which the pid stays selected no error is
\* logged for that reader any more, and the other readers are still run.
C13_ReportedOnce ==
    [][CycleCompletes =>
         \A p \in trackers \cap trackers' :
           \A i \in FailedAndReported(p) :
             /\ runs'[p][i].errors = 0
             /\ Len(runs'[p]) = Len(GatherKinds)]_vars

\* The i-th reader of the tracker of pid p read its file and returned the
\* collector in the last cycle.
Succeeded(p, i) ==
    /\ runs[p][i].raised = "none"
    /\ runs[p][i].returns = "dict"
    /\ runs[p][i].readf
    /\ runs[p][i].errors = 0

\* C14: collect never raises.  Every reader of the tracker is run in the call;
\* an exception a reader raises is logged with the pid and the type of the
\* reader; and the keys of every reader that succeeded are in the sample the
\* call returns.
C14_CollectNeverRaises ==
    cycle >= 1 =>
      /\ raised = "none"
      /\ \A p \in trackers :
           /\ Len(runs[p]) = Len(GatherKinds)
           /\ \A i \in 1..Len(GatherKinds) :
                /\ runs[p][i].raised # "none" =>
                     [pid |-> p, type |-> GatherKinds[i], ex |-> runs[p][i].raised]
                        \in exceptions
                /\ Succeeded(p, i) =>
                     \E c \in Contents(GatherKinds[i]) :
                        \A k \in DOMAIN c :
                           k \in DOMAIN samples[p] /\ samples[p][k] = c[k]

\* The first reader of a tracker raised, the exception was logged, and the
\* last reader was run and its key is in the sample.
C14_Witness ==
    \E p \in trackers :
       /\ runs[p][1].raised = "ValueError"
       /\ [pid |-> p, type |-> "stat", ex |-> "ValueError"] \in exceptions
       /\ Succeeded(p, Len(GatherKinds))
       /\ FdsOpen \in DOMAIN samples[p]

\* The emit_value call print_metrics makes for a key of the running total.
EmissionOf(key) ==
    [name  |-> key[1],
     value |-> running_total[key],
     extra |-> IF key[2] = None
               THEN {<<"app", MonitorId>>}
               ELSE {<<"app", MonitorId>>, <<"type", key[2]>>}]

\* C15: what a cycle emits is one value for each key of the running total, no
\* more: the name of the key, its total as the record, reset, recompute and
\* purge steps of that cycle left it, and the dimensions app=id, plus
\* type=subtype exactly when the key has a subtype.
C15_OneValuePerKey ==
    /\ \A key \in DOMAIN running_total : EmissionOf(key) \in emitted
    /\ \A e \in emitted :
         \E key \in DOMAIN running_total : e = EmissionOf(key)
    /\ Cardinality(emitted) = Cardinality(DOMAIN running_total)

\* A cycle changed the totals of a key with a subtype and of a key without
\* one, and both were emitted.
C15_Witness ==
    /\ cycle >= 2
    /\ {CpuUser, Threads} \subseteq DOMAIN running_total
    /\ running_total[CpuUser] > 0
    /\ EmissionOf(CpuUser) \in emitted
    /\ EmissionOf(Threads) \in emitted

\* C16: a selected pid whose app.cpu history holds fewer than two values
\* contributes 0 in the recompute pass: the pass leaves the running total of
\* the key as it would leave it without that pid's history entry.
C16_NewPidContributesZero ==
    [][CycleCompletes =>
        \A q \in DOMAIN Recorded \cap trackers' :
            (CpuUser \in DOMAIN Recorded[q] /\ Len(Recorded[q][CpuUser]) < 2) =>
                LET rt0  == ResetAbsoluteMetrics(running_total, Recorded)
                    else == RecomputeTotals(rt0, Dropped(Recorded, q), trackers',
                                            Without(visit', q))
                IN  running_total'[CpuUser] = TotalOf(else, CpuUser)]_vars

\* The names of the metrics defined with cumulative=True.
DeclaredCumulative == {"app.cpu", "app.uptime", "app.disk.bytes", "app.disk.requests"}

\* C17: a metric declared cumulative is aggregated as cumulative: the reset
\* step of a cycle never zeroes its running total, which after the cycle
\* differs from the one before by first differences of the recorded values
\* only; every other metric is zeroed by the reset step.
C17_DeclaredCumulative ==
    [][CycleCompletes =>
        \A key \in DOMAIN running_total \cap HistoryKeys(Recorded) :
            LET rt0 == ResetAbsoluteMetrics(running_total, Recorded)
            IN  IF key[1] \in DeclaredCumulative
                THEN rt0[key] = running_total[key]
                ELSE rt0[key] = 0]_vars

\* C18: the purge follows the recompute pass.  In the cycle a pid has left
\* the selection its history entry is still read: the total of the absolute
\* key sums the latest values of every pid recorded, the pid that left
\* included; the entry is dropped afterwards, so that the history a cycle
\* leaves holds the pids that cycle selected and no other.
C18_PurgeAfterRecompute ==
    [][CycleCompletes =>
        /\ DOMAIN history' = DOMAIN Recorded \cap trackers'
        /\ purged' = DOMAIN Recorded \ trackers'
        /\ Threads \in HistoryKeys(Recorded) =>
             running_total'[Threads] = SumLatest(Recorded, DOMAIN Recorded, Threads)
        /\ \A q \in purged' :
             (CpuUser \in DOMAIN Recorded[q] /\ Len(Recorded[q][CpuUser]) = 2 /\
              DOMAIN Recorded = {q}) =>
                running_total'[CpuUser] =
                    running_total[CpuUser]
                      - (Recorded[q][CpuUser][2] - Recorded[q][CpuUser][1])]_vars

\* A cycle has dropped a pid from the history after counting its last
\* app.threads value in the total.
C18_Witness ==
    /\ purged # {}
    /\ trackers # {}
    /\ DOMAIN history = trackers
    /\ Threads \in DOMAIN running_total
    /\ running_total[Threads] > SumLatest(history, DOMAIN history, Threads)

\* C19: for a pid selected in two cycles in a row no new reader is made in
\* the second: the reader made when the pid was first tracked is used again,
\* and a file it holds open is rewound and read, not opened.
C19_ReaderKeptAcrossCycles ==
    [][CycleCompletes =>
        \A p \in trackers \cap trackers' :
            /\ made'[p] = made[p]
            /\ \A i \in 1..Len(GatherKinds) :
                 (GatherKinds[i] \in BaseReaderKinds /\ runs[p][i].reader.file = "open")
                    => (~runs'[p][i].opened /\ runs'[p][i].readf)]_vars

\* C20: run_single_cycle on a reader whose failure flag is set does nothing
\* and returns the collector it was given with the same keys and values; it
\* attempts no open and no read.
C20_FailedIsNoOp ==
    [][(/\ reader.failed
        /\ last_call'.method = "run_single_cycle"
        /\ reader_calls' = reader_calls + 1)
       => (/\ reader' = reader
           /\ ~last_call'.opened
           /\ ~last_call'.readf
           /\ last_call'.raised = "none"
           /\ last_call'.returns = "dict"
           /\ last_call'.value = last_call'.given)]_vars

\* A step is a run_single_cycle call on the reader.
RunSingleCycleCalled ==
    reader_calls' = reader_calls + 1 /\ last_call'.method = "run_single_cycle"

\* C21: when the open of a run_single_cycle call fails with permission-denied
\* or not-found, the call sets the failure flag, logs one error, raises
\* nothing and returns the collector it was given with no key added.
C21_OpenFailureReported ==
    [][(RunSingleCycleCalled /\ last_call'.open \in {"EACCES", "ENOENT"}) =>
         /\ reader'.failed
         /\ reader'.file = None
         /\ last_call'.errors = 1
         /\ last_call'.raised = "none"
         /\ last_call'.returns = "dict"
         /\ last_call'.value = last_call'.given]_vars

\* A call whose open failed with not-found was given a collector that holds
\* a key, and returned it.
C21_Witness ==
    /\ last_call.method = "run_single_cycle"
    /\ last_call.open = "ENOENT"
    /\ last_call.given # EmptyDict
    /\ last_call.value = last_call.given
    /\ reader.failed

OpenRaised(run) == run.opened /\ ~run.readf /\ run.raised = "IOError"

\* C23 as stated: an open that fails with another error aborts the cycle, so
\* a cycle that goes on to reset, recompute and emit is one in which no open
\* of a reader failed that way.
C23_OpenErrorAbortsCycle ==
    [][CycleCompletes =>
         \A p \in trackers' : \A i \in 1..Len(GatherKinds) :
            ~OpenRaised(runs'[p][i])]_vars

\* C23, amended: the error leaves run_single_cycle with the failure flag of
\* the reader set, and collect catches and logs it with the pid and the type
\* of the reader; the other readers of the tracker are run and the cycle
\* records, resets, recomputes and emits as in any other cycle.
C23_OpenErrorLoggedCycleGoesOn ==
    [][cycle' = cycle + 1 =>
         \A p \in DOMAIN runs' : \A i \in 1..Len(runs'[p]) :
            OpenRaised(runs'[p][i]) =>
              /\ raised' = "none"
              /\ runs'[p][i].reader.failed
              /\ [pid |-> p, type |-> GatherKinds[i], ex |-> "IOError"] \in exceptions'
              /\ Len(runs'[p]) = Len(GatherKinds)
              /\ running_total' =
                    RecomputeTotals(ResetAbsoluteMetrics(running_total, Recorded),
                                    Recorded, trackers', visit')
              /\ emitted' = PrintMetrics(running_total')
              /\ \A j \in 1..Len(GatherKinds) :
                    (runs'[p][j].raised = "none" /\ runs'[p][j].returns = "dict")
                       => \A k \in DOMAIN runs'[p][j].value :
                             k \in DOMAIN running_total']_vars

\* The open of the stat reader raised another error in a cycle, and the cycle
\* emitted the key of the fd reader of the same tracker.
C23_Witness ==
    \E p \in trackers :
       /\ OpenRaised(runs[p][1])
       /\ [pid |-> p, type |-> "stat", ex |-> "IOError"] \in exceptions
       /\ raised = "none"
       /\ FdsOpen \in DOMAIN running_total
       /\ \E e \in emitted : e.name = FdsOpen[1]

\* C24: once the failure flag of a reader is set, no call on the reader,
\* run_single_cycle or close, clears it.
C24_FlagNeverCleared ==
    [][reader.failed => reader'.failed]_vars

\* C25: a first difference of the app.cpu values of a selected pid is added
\* to the running total in one cycle at most.  The difference of the two
\* values the history holds was added in the cycle that recorded the second
\* of them, so a later cycle in which the pid is selected and its reader
\* yields no value adds nothing for the pid: the recompute pass leaves the
\* total as it would leave it without that pid's history entry.
C25_DeltaAddedOnce ==
    [][CycleCompletes =>
        \A q \in DOMAIN Recorded \cap trackers' :
            (/\ CpuUser \in DOMAIN Recorded[q]
             /\ Len(Recorded[q][CpuUser]) = 2
             /\ CpuUser \notin DOMAIN samples'[q]) =>
                LET rt0  == ResetAbsoluteMetrics(running_total, Recorded)
                    else == RecomputeTotals(rt0, Dropped(Recorded, q), trackers',
                                            Without(visit', q))
                IN  running_total'[CpuUser] = TotalOf(else, CpuUser)]_vars

\* C26: the running total a cycle leaves does not depend on the order in
\* which the recompute pass visits the pids of the history: every order gives
\* the totals the order taken gave.
C26_OrderIndependent ==
    [][CycleCompletes =>
        \A order \in Orders(DOMAIN Recorded) :
            RecomputeTotals(ResetAbsoluteMetrics(running_total, Recorded),
                            Recorded, trackers', order) = running_total']_vars

\* Every app.cpu value in the record lg is at least the one recorded before
\* it for the same pid.
NonDecreasing(lg) ==
    \A p \in DOMAIN lg :
        CpuUser \in DOMAIN lg[p] =>
            \A i \in 1..(Len(lg[p][CpuUser]) - 1) :
                lg[p][CpuUser][i] <= lg[p][CpuUser][i + 1]

\* C27: when the app.cpu values of every pid never decrease, the running
\* total of app.cpu is never negative, whatever pids come and go.  Here for
\* the cycles up to and including the first one that drops a pid from the
\* history, where the record holds every value ever recorded.
C27_TotalNeverNegative ==
    [][(/\ CycleCompletes
        /\ everTracked = DOMAIN log
        /\ NonDecreasing(LogAll(log, trackers', samples')))
       => TotalOf(running_total', CpuUser) >= 0]_vars

\* The lines of the file given that match the pattern of the status parser:
\* a run of word characters at the start of the line, a colon, any white
\* space, and a run of digits.
MatchingLines ==
    {i \in 1..Len(parse_input.file) : StatusMatch(parse_input.file[i]).matched}

FieldAt(offset) == parse_input.numbers[offset + 1 - parse_input.shift]

\* floor(a / b) for b > 0.
Floor(a, b) == a \div b

\* C29: of a stat line, app.cpu user and system are
\* floor(ticks * 100 / ticks_per_sec) of the fields at offsets 11 and 12 after
\* the first ") ", app.nice and app.threads are the fields at offsets 16 and
\* 17, and app.uptime is the system uptime in ms minus
\* floor(start_ticks * 1000 / ticks_per_sec) of the field at offset 19.
C29_StatFormulas ==
    (parse_output # NothingParsed /\ parse_output.kind = "stat") =>
       LET tps == parse_input.jiffies_per_sec
           out == parse_output.value
       IN  /\ out[CpuUser] = Floor(FieldAt(11) * 100, tps)
           /\ out[CpuSystem] = Floor(FieldAt(12) * 100, tps)
           /\ out[Nice] = FieldAt(16)
           /\ out[Threads] = FieldAt(17)
           /\ out[Uptime] =
                 parse_output.uptime_ms - Floor(FieldAt(19) * 1000, tps)

\* A line was parsed whose tick counts are no multiples of the ticks per
\* second: 7 user ticks at 250 per second are 2 centiseconds, 333 start ticks
\* are 1332 ms of the 130000 ms the system is up.
C29_Witness ==
    /\ parse_output # NothingParsed
    /\ parse_output.kind = "stat"
    /\ parse_input.jiffies_per_sec = 250
    /\ parse_input.shift = 0
    /\ parse_input.numbers[12] = 7
    /\ parse_input.numbers[20] = 333
    /\ parse_input.numbers[17] = -5
    /\ parse_output.value[CpuUser] = 2
    /\ parse_output.value[Nice] = -5
    /\ parse_output.uptime_ms = 130000
    /\ parse_output.value[Uptime] = 128668

\* C30: after any sequence of completed run_single_cycle and close calls, a
\* reader whose permanent-failure flag is set holds no file handle.
C30_FailedHoldsNoHandle ==
    reader.failed => reader.file = None

\* The reader held a handle, the read of a run_single_cycle call failed and
\* closing the handle raised: the flag is set and the handle is gone.
C30_Witness ==
    /\ last_call.method = "run_single_cycle"
    /\ last_call.read = "IOError"
    /\ last_call.close = "IOError"
    /\ reader.failed
    /\ reader.file = None
====
